---- MODULE Spec2Model ----
(***************************************************************************)
(* Model of internal/policies/policies.go of adsys: the merge engine       *)
(* (Policies.GetUniqueRules), the orchestrator (Manager.ApplyPolicies)     *)
(* with the entitlement gate (getSubcriptionState, GetStatus), the cache   *)
(* store (Policies.Save, NewFromCache) and the calls that read it          *)
(* (Manager.DumpPolicies, Manager.LastUpdateFor).                          *)
(*                                                                         *)
(* Go strings are sequences of byte codes (<<97, 98>> is "ab"), so that    *)
(* string concatenation (t+e.Key, line 193) and the byte-wise order of     *)
(* sort.Strings (line 225) are computed as the code computes them.  A Go   *)
(* map is a function with a finite domain; reading a missing key yields    *)
(* the zero value of the element type.                                     *)
(***************************************************************************)
EXTENDS Integers, Sequences, FiniteSets, TLC

(***************************************************************************)
(* Bounds of the model.                                                    *)
(***************************************************************************)
\* Largest number of GPOs in a Policy Set handed to GetUniqueRules.
MaxGPOs == 3
\* Largest number of rule entries in a Policy Set handed to GetUniqueRules.
MaxEntries == 3
\* Largest number of ApplyPolicies calls made on the Manager.
MaxCalls == 2

(***************************************************************************)
(* Strings.                                                                *)
(***************************************************************************)
\* "\n", the separator of line 199.
Newline == <<10>>

\* entry.StrategyAppend and entry.StrategyOverride; "" is the zero value.
StrategyAppend == "append"
StrategyOverride == "override"

\* The zero value of entry.Entry, read from a map that lacks the key.
ZeroEntry == [Key |-> <<>>, Value |-> <<>>, Disabled |-> FALSE,
              Meta |-> <<>>, Strategy |-> ""]

\* Byte-wise lexical order of Go strings (the order of sort.Strings).
RECURSIVE StrLess(_, _)
StrLess(a, b) ==
    IF b = <<>> THEN FALSE
    ELSE IF a = <<>> THEN TRUE
    ELSE IF Head(a) # Head(b) THEN Head(a) < Head(b)
    ELSE StrLess(Tail(a), Tail(b))

\* Insert k in the ascending sequence s, after the elements not greater.
RECURSIVE SortedInsert(_, _)
SortedInsert(s, k) ==
    IF s = <<>> THEN <<k>>
    ELSE IF StrLess(k, Head(s)) THEN <<k>> \o s
    ELSE <<Head(s)>> \o SortedInsert(Tail(s), k)

\* sort.Strings(keys[t]), line 225.
RECURSIVE SortStrings(_)
SortStrings(s) ==
    IF s = <<>> THEN <<>>
    ELSE SortedInsert(SortStrings(Tail(s)), Head(s))

(***************************************************************************)
(* Go maps.                                                                *)
(***************************************************************************)
\* m[k] of a Go map: the zero value when k is missing.
MapGet(m, k, zero) == IF k \in DOMAIN m THEN m[k] ELSE zero

\* m[k] = v of a Go map.
MapSet(m, k, v) == [x \in (DOMAIN m) \cup {k} |-> IF x = k THEN v ELSE m[x]]

\* The empty map.
EmptyMap == <<>>

(***************************************************************************)
(* Policies.GetUniqueRules, lines 172-233.  st is the state of its loops:  *)
(* dedup (line 177), seen (line 178) and keys (line 174).                  *)
(***************************************************************************)
\* The key of the seen set: the plain concatenation t+e.Key (lines 193, 210, 217).
SeenKey(t, k) == t \o k

\* dedup[t][k] (lines 196, 199, 201): the zero Entry when the key is missing.
DedupGet(st, t, k) == MapGet(MapGet(st.dedup, t, EmptyMap), k, ZeroEntry)

\* dedup[t][e.Key] = e (lines 203, 213).
DedupSet(st, t, e) ==
    [st EXCEPT !.dedup = MapSet(st.dedup, t,
                                MapSet(MapGet(st.dedup, t, EmptyMap), e.Key, e))]

\* Lines 216-217: the key is recorded for its type and marked as seen.
MarkSeen(st, t, e) ==
    [st EXCEPT !.keys = MapSet(st.keys, t, Append(MapGet(st.keys, t, <<>>), e.Key)),
               !.seen = st.seen \cup {SeenKey(t, e.Key)}]

\* A mutant of SkipDisabled: disabled append entries are merged as well.
SkipDisabledNever(e) == FALSE

\* Lines 188-190: a disabled append entry is skipped.
SkipDisabled(e) == e.Disabled

\* A mutant of AppendValue: the new value is put after the existing one.
AppendValueAfter(e, old) == old.Value \o Newline \o e.Value

\* Line 199: the new value is put before the existing one.
AppendValue(e, old) == e.Value \o Newline \o old.Value

\* A mutant of KeepMeta: the merged entry keeps its own metadata.
KeepMetaOwn(e, old) == e.Meta

\* Line 201: the merged entry takes the metadata of the existing one.
KeepMeta(e, old) == old.Meta

\* Lines 186-206: one entry with the append strategy.
ProcessAppend(st, t, e) ==
    IF SkipDisabled(e) THEN st
    ELSE IF SeenKey(t, e.Key) \in st.seen
         THEN LET old == DedupGet(st, t, e.Key) IN
              IF old.Strategy # StrategyAppend THEN st
              ELSE DedupSet(st, t, [e EXCEPT !.Value = AppendValue(e, old),
                                             !.Meta = KeepMeta(e, old)])
         ELSE MarkSeen(DedupSet(st, t, e), t, e)

\* Lines 208-213: one entry with any other strategy (override).
ProcessOverride(st, t, e) ==
    IF SeenKey(t, e.Key) \in st.seen THEN st
    ELSE MarkSeen(DedupSet(st, t, e), t, e)

\* Lines 185-217: the switch on the strategy of one entry.
ProcessEntry(st, t, e) ==
    IF e.Strategy = StrategyAppend THEN ProcessAppend(st, t, e)
    ELSE ProcessOverride(st, t, e)

\* Lines 184-218: the entries of one type of one GPO, in their order.
RECURSIVE ProcessEntries(_, _, _)
ProcessEntries(st, t, entries) ==
    IF entries = <<>> THEN st
    ELSE ProcessEntries(ProcessEntry(st, t, Head(entries)), t, Tail(entries))

\* Lines 181-183: dedup[t] is made on the first sight of the type t.
InitType(st, t) ==
    IF t \in DOMAIN st.dedup THEN st
    ELSE [st EXCEPT !.dedup = MapSet(st.dedup, t, EmptyMap)]

\* Lines 180-219: the types of one GPO, in the order ord in which the Go
\* runtime happens to iterate the map gpo.Rules.
RECURSIVE ProcessGPO(_, _, _)
ProcessGPO(st, gpo, ord) ==
    IF ord = <<>> THEN st
    ELSE ProcessGPO(ProcessEntries(InitType(st, Head(ord)), Head(ord),
                                   gpo.Rules[Head(ord)]),
                    gpo, Tail(ord))

\* Lines 179-220: the GPOs in their order, closest first.
RECURSIVE ProcessGPOs(_, _, _)
ProcessGPOs(st, gpos, ords) ==
    IF gpos = <<>> THEN st
    ELSE ProcessGPOs(ProcessGPO(st, Head(gpos), Head(ords)), Tail(gpos), Tail(ords))

\* Lines 223-230: for each type the entries of its keys, in sorted key order.
EmitRules(st) ==
    [t \in DOMAIN st.dedup |->
        LET ks == SortStrings(MapGet(st.keys, t, <<>>)) IN
        [i \in 1..Len(ks) |-> DedupGet(st, t, ks[i])]]

\* Lines 173-178: the empty maps the function starts from.
InitState == [dedup |-> EmptyMap, seen |-> {}, keys |-> EmptyMap]

\* GetUniqueRules of the GPO list gpos, the map gpos[i].Rules being iterated in
\* the order ords[i].
GetUniqueRules(gpos, ords) == EmitRules(ProcessGPOs(InitState, gpos, ords))

\* The orders in which a map with the key set S can be iterated.
Perms(S) ==
    {s \in [1..Cardinality(S) -> S] : \A i, j \in 1..Cardinality(S) : i # j => s[i] # s[j]}

\* The iteration orders of the Rules maps of a GPO list, one per GPO (line 180).
RECURSIVE Orders(_)
Orders(gpos) ==
    IF gpos = <<>> THEN {<<>>}
    ELSE {<<p>> \o rest : p \in Perms(DOMAIN Head(gpos).Rules), rest \in Orders(Tail(gpos))}

\* rules[t] of the map GetUniqueRules returns: nil for a missing type.
RulesOf(rules, t) == MapGet(rules, t, <<>>)

(***************************************************************************)
(* The Policy Sets handed to GetUniqueRules.  The code copies and joins    *)
(* Value and Meta and never looks into them, so every entry of the GPO at  *)
(* index i carries the value and the metadata of its GPO: "x", "y", "z"    *)
(* ... and "1", "2", "3" ...  The types "a" and "ab" and the keys "bc" and *)
(* "c" give two keys per type and two pairs, ("a","bc") and ("ab","c"),    *)
(* that concatenate to the same string.                                    *)
(***************************************************************************)
MergeTypes == {<<97>>, <<97, 98>>}
MergeKeys == {<<98, 99>>, <<99>>}

\* The entry with key k, strategy s and disabled flag d of the GPO at index i.
EntryAt(i, k, s, d) ==
    [Key |-> k, Value |-> <<119 + i>>, Disabled |-> d, Meta |-> <<48 + i>>,
     Strategy |-> s]

\* The entry lists a type of the GPO at index i may hold: one entry.
EntryListsAt(i) ==
    {<<EntryAt(i, k, s, d)>> :
        k \in MergeKeys, s \in {StrategyAppend, StrategyOverride}, d \in BOOLEAN}

\* The GPOs at index i: a Rules map from some of the types to an entry list.
\* A GPO without rules enters no loop body of GetUniqueRules and is left out.
GPOsAt(i) ==
    UNION {{[Rules |-> rs] : rs \in [ts -> EntryListsAt(i)]} :
              ts \in (SUBSET MergeTypes) \ {{}}}

\* The number of entries of a GPO, and of a GPO list.
GPOEntryCount(gpo) == Cardinality(DOMAIN gpo.Rules)
RECURSIVE EntryCount(_)
EntryCount(gpos) ==
    IF gpos = <<>> THEN 0 ELSE GPOEntryCount(Head(gpos)) + EntryCount(Tail(gpos))

\* The value of rules before GetUniqueRules has returned.
NoRules == "norules"

VARIABLES
    pols,                 \* Policies.GPOs, the GPO list of the Policy Set in hand
    ords,                 \* the order in which line 180 iterated each gpo.Rules
    rules,                \* the map GetUniqueRules returned, or NoRules
    pc,                   \* where the caller (or ApplyPolicies) stands
    objectName,           \* ApplyPolicies: the target of the call
    isComputer,           \* ApplyPolicies: the scope of the call
    dconf,                \* the task of line 244: "none", "spawned", "reading",
                          \*   "running", "ok", "err"
    privilege,            \* the task of line 250: "none", "spawned", "running", "ok", "err"
    gdm,                  \* the call of line 259: "none", "running", "ok", "err"
    dconfArgs,            \* the rules m.dconf.ApplyPolicy was invoked with
    privilegeArgs,        \* the rules m.privilege.ApplyPolicy was invoked with
    gdmArgs,              \* the rules m.gdm.ApplyPolicy was invoked with
    writing,              \* filterRules is writing the rules map
    raced,                \* the map read of line 244 overlapped the write of line 370
    groupErr,             \* errgroup.Group: the first error recorded
    subscriptionEnabled,  \* Manager.subscriptionEnabled
    checked,              \* what getSubcriptionState returned to this call
    cache,                \* the files of policiesCacheDir, by object name
    cacheBefore,          \* cache when the call started
    ret,                  \* what ApplyPolicies returned: "none", "ok", "err"
    calls,                \* the number of ApplyPolicies calls started
    prev,                 \* the previous ApplyPolicies call
    dbusReply,            \* what GetProperty answered to getSubcriptionState,
                          \*   until ApplyPolicies goes on after line 246
    status,               \* what GetStatus returned last, until ApplyPolicies
                          \*   goes on
    retErr,               \* the error ApplyPolicies returned: "none", "dconf",
                          \*   "privilege", "gdm", "save"
    handed,               \* the external calls of this call that were given ctx
    mtime,                \* the modification time of the files of policiesCacheDir
    query                 \* the DumpPolicies or LastUpdateFor call made since the
                          \*   last ApplyPolicies call, and what it returned

mergeVars == <<pols, ords, rules, pc>>
applyVars == <<objectName, isComputer, dconf, privilege, gdm, dconfArgs,
               privilegeArgs, gdmArgs, writing, raced, groupErr,
               subscriptionEnabled, checked, cache, cacheBefore, ret, calls, prev,
               dbusReply, status, retErr, handed, mtime, query>>
vars == <<mergeVars, applyVars>>

(***************************************************************************)
(* The Manager, its cache directory and the calls made on it.              *)
(***************************************************************************)
\* The rule types ApplyPolicies dispatches: "dconf", "privilege", "gdm".
Dconf == <<100, 99, 111, 110, 102>>
Privilege == <<112, 114, 105, 118, 105, 108, 101, 103, 101>>
Gdm == <<103, 100, 109>>

\* The object names: the machine (os.Hostname()) and a user.
Hostname == "host"
Targets == {Hostname, "user"}

\* A file of policiesCacheDir: absent, or holding a YAML document of a GPO
\* list (valid), or what a failed write left of it (not valid).
NoFile == [present |-> FALSE, valid |-> FALSE, GPOs |-> <<>>]
BrokenFile == [present |-> TRUE, valid |-> FALSE, GPOs |-> <<>>]

\* The YAML document of a rule entry, of a Rules map and of a GPO list: the
\* fields of an entry in the order of the document, the rule types of a
\* map in ascending order, each with its entries in their order.
EncodeEntry(e) == <<e.Key, e.Value, e.Disabled, e.Meta, e.Strategy>>
DecodeEntry(y) == [Key |-> y[1], Value |-> y[2], Disabled |-> y[3],
                   Meta |-> y[4], Strategy |-> y[5]]
EncodeRules(rs) ==
    LET ts == SortStrings(CHOOSE q \in Perms(DOMAIN rs) : TRUE)
    IN  [i \in 1..Len(ts) |->
            <<ts[i], [j \in 1..Len(rs[ts[i]]) |-> EncodeEntry(rs[ts[i]][j])]>>]
DecodeRules(y) ==
    [t \in {y[i][1] : i \in 1..Len(y)} |->
        LET es == (CHOOSE i \in 1..Len(y) : y[i][1] = t)
        IN  [j \in 1..Len(y[es][2]) |-> DecodeEntry(y[es][2][j])]]
EncodeGPOs(gpos) == [i \in 1..Len(gpos) |-> EncodeRules(gpos[i].Rules)]
DecodeGPOs(y) == [i \in 1..Len(y) |-> [Rules |-> DecodeRules(y[i])]]

\* Policies.Data of the Policy Sets ApplyPolicies is called with, and of a
\* Policy Set read from the cache (nil).
AssetsData == "assets"
NoData == "nil"

\* The Policies value of a GPO list handed to ApplyPolicies (lines 135-138).
PoliciesOf(gpos) == [GPOs |-> gpos, Data |-> AssetsData]

\* yaml.Marshal(p), line 159: the document of the GPO list of the Policy
\* Set p; Data is left out (line 137).
Marshal(p) == [present |-> TRUE, valid |-> TRUE, GPOs |-> EncodeGPOs(p.GPOs)]

\* NewFromCache, lines 141-153: what loading the file can return.  A file
\* that is not there cannot be read (line 145).  What a failed write left
\* is an empty file, which yaml.Unmarshal takes for a Policy Set without
\* GPO, or the start of a document, which it refuses (line 149).
LoadError == [err |-> TRUE, pols |-> [GPOs |-> <<>>, Data |-> NoData]]
Loaded(gpos) == [err |-> FALSE, pols |-> [GPOs |-> gpos, Data |-> NoData]]
NewFromCache(file) ==
    IF ~file.present THEN {LoadError}
    ELSE IF ~file.valid THEN {LoadError, Loaded(<<>>)}
    ELSE {Loaded(DecodeGPOs(file.GPOs))}

\* GetProperty has not been called.
NoReply == [err |-> FALSE, isString |-> FALSE, value |-> "noquery"]

\* Neither DumpPolicies nor LastUpdateFor has been called.  An error names
\* an object; the time of an error is the zero time.Time.
NoQuery == [op |-> "none", objectName |-> "", isMachine |-> FALSE, err |-> FALSE,
            named |-> "", time |-> 0, msg |-> <<>>]

\* No ApplyPolicies call has been made yet.
NoCall == [called |-> FALSE, pols |-> <<>>, checked |-> "none", privilegeArgs |-> <<>>]

\* The Manager NewManager returns (lines 123-131), with an empty cache
\* directory (line 116) and no call in progress.
InitManager ==
    /\ objectName = Hostname
    /\ isComputer = FALSE
    /\ dconf = "none"
    /\ privilege = "none"
    /\ gdm = "none"
    /\ dconfArgs = <<>>
    /\ privilegeArgs = <<>>
    /\ gdmArgs = <<>>
    /\ writing = FALSE
    /\ raced = FALSE
    /\ groupErr = "none"
    /\ subscriptionEnabled = FALSE
    /\ checked = "none"
    /\ cache = [n \in Targets |-> NoFile]
    /\ cacheBefore = [n \in Targets |-> NoFile]
    /\ ret = "none"
    /\ calls = 0
    /\ prev = NoCall
    /\ dbusReply = NoReply
    /\ status = "none"
    /\ retErr = "none"
    /\ handed = {}
    /\ mtime = [n \in Targets |-> 0]
    /\ query = NoQuery

\* The directory client adds one more (farther) GPO to the Policy Set.
AddGPO ==
    /\ pc = "input"
    /\ Len(pols) < MaxGPOs
    /\ \E g \in GPOsAt(Len(pols) + 1) :
          /\ EntryCount(pols) + GPOEntryCount(g) <= MaxEntries
          /\ pols' = Append(pols, g)
    /\ UNCHANGED <<ords, rules, pc>>
    /\ UNCHANGED applyVars

\* pols.GetUniqueRules() is called and returns (lines 172-233).
Resolve ==
    /\ pc = "input"
    /\ \E o \in Orders(pols) :
          /\ ords' = o
          /\ rules' = GetUniqueRules(pols, o)
    /\ pc' = "merged"
    /\ UNCHANGED pols
    /\ UNCHANGED applyVars

InitMerge ==
    /\ pols = <<>>
    /\ ords = <<>>
    /\ rules = NoRules
    /\ pc = "input"
    /\ InitManager

NextMerge == AddGPO \/ Resolve

SpecMerge == InitMerge /\ [][NextMerge]_vars

(***************************************************************************)
(* Vocabulary of the statements about GetUniqueRules.                      *)
(***************************************************************************)
\* The (type, key) pairs of the model.
Pairs == MergeTypes \X MergeKeys

\* An entry GetUniqueRules skips outright: a disabled entry with the append strategy.
IsSkipped(e) == e.Strategy = StrategyAppend /\ e.Disabled
IsEnabledAppend(e) == e.Strategy = StrategyAppend /\ ~e.Disabled

\* The entries of one GPO for the pair p, in their order.
GPOEntries(gpo, p) == SelectSeq(MapGet(gpo.Rules, p[1], <<>>), LAMBDA e : e.Key = p[2])

\* The entries of a GPO list for the pair p, closest first.
RECURSIVE PairEntries(_, _)
PairEntries(gpos, p) ==
    IF gpos = <<>> THEN <<>>
    ELSE GPOEntries(Head(gpos), p) \o PairEntries(Tail(gpos), p)

Range(s) == {s[i] : i \in DOMAIN s}
Reverse(s) == [i \in 1..Len(s) |-> s[Len(s) + 1 - i]]
ValuesOf(es) == [i \in 1..Len(es) |-> es[i].Value]

\* The strings of vs joined by "\n".
RECURSIVE JoinLines(_)
JoinLines(vs) ==
    IF vs = <<>> THEN <<>>
    ELSE IF Len(vs) = 1 THEN vs[1]
    ELSE vs[1] \o Newline \o JoinLines(Tail(vs))

\* The segments of v between its "\n" bytes.
RECURSIVE SplitLines(_)
SplitLines(v) ==
    IF \A i \in DOMAIN v : <<v[i]>> # Newline THEN <<v>>
    ELSE LET n == CHOOSE i \in DOMAIN v :
                     /\ <<v[i]>> = Newline
                     /\ \A j \in 1..(i - 1) : <<v[j]>> # Newline
         IN <<SubSeq(v, 1, n - 1)>> \o SplitLines(SubSeq(v, n + 1, Len(v)))

\* Whether the output rs holds an entry for the pair p, and that entry.
HasMerged(rs, p) == \E i \in DOMAIN RulesOf(rs, p[1]) : RulesOf(rs, p[1])[i].Key = p[2]
Merged(rs, p) ==
    LET es == RulesOf(rs, p[1]) IN es[CHOOSE i \in DOMAIN es : es[i].Key = p[2]]

\* Whether the entry e of the pair p is a segment of the merged value of p.
Contributes(e, rs, p) ==
    HasMerged(rs, p) /\ e.Value \in Range(SplitLines(Merged(rs, p).Value))

\* A GPO list without its disabled append entries, and without the entries of
\* the pair p; the types stay in the Rules maps.
StripDisabled(gpos) ==
    [i \in 1..Len(gpos) |->
        [Rules |-> [t \in DOMAIN gpos[i].Rules |->
                       SelectSeq(gpos[i].Rules[t], LAMBDA e : ~IsSkipped(e))]]]
\* The same with the types that are left without entries taken out of the
\* Rules maps, and what is left of the iteration orders os.
StripDisabledTypes(gpos) ==
    [i \in 1..Len(gpos) |->
        [Rules |-> [t \in {u \in DOMAIN gpos[i].Rules :
                              \E e \in Range(gpos[i].Rules[u]) : ~IsSkipped(e)} |->
                       SelectSeq(gpos[i].Rules[t], LAMBDA e : ~IsSkipped(e))]]]
StripOrders(gpos, os) ==
    [i \in 1..Len(gpos) |->
        SelectSeq(os[i], LAMBDA t : t \in DOMAIN StripDisabledTypes(gpos)[i].Rules)]
WithoutPair(gpos, p) ==
    [i \in 1..Len(gpos) |->
        [Rules |-> [t \in DOMAIN gpos[i].Rules |->
                       SelectSeq(gpos[i].Rules[t],
                                 LAMBDA e : ~(t = p[1] /\ e.Key = p[2]))]]]

\* The pairs of the input that only enabled append entries contribute to.
OnlyEnabledAppends(p) ==
    /\ PairEntries(pols, p) # <<>>
    /\ \A e \in Range(PairEntries(pols, p)) : IsEnabledAppend(e)

(***************************************************************************)
(* C1.                                                                     *)
(***************************************************************************)
\* C1 as stated: for a pair that only enabled append entries contribute to,
\* the merged value is the contributors' values joined by "\n" closest first.
C1_ClosestFirst ==
    pc = "merged" =>
        \A p \in Pairs :
            (OnlyEnabledAppends(p) /\ HasMerged(rules, p)) =>
                Merged(rules, p).Value = JoinLines(ValuesOf(PairEntries(pols, p)))

\* C1 amended: for a pair that only enabled append entries contribute to,
\* the merged value is the contributors' values joined by "\n" farthest
\* first, so the closest GPO's value comes last: "y\nx" for [G1 x, G2 y].
C1_FarthestFirst ==
    pc = "merged" =>
        \A p \in Pairs :
            (OnlyEnabledAppends(p) /\ HasMerged(rules, p)) =>
                Merged(rules, p).Value =
                    JoinLines(Reverse(ValuesOf(PairEntries(pols, p))))

\* The example of C1: [G1{"c": "x", append}, G2{"c": "y", append}] of type
\* "a" has been merged, to "y\nx".
C1_Witness ==
    /\ pc = "merged"
    /\ pols = <<[Rules |-> (<<97>> :> <<EntryAt(1, <<99>>, StrategyAppend, FALSE)>>)],
                [Rules |-> (<<97>> :> <<EntryAt(2, <<99>>, StrategyAppend, FALSE)>>)]>>
    /\ HasMerged(rules, <<(<<97>>), (<<99>>)>>)
    /\ Merged(rules, <<(<<97>>), (<<99>>)>>).Value = <<121, 10, 120>>

(***************************************************************************)
(* C2.                                                                     *)
(***************************************************************************)
\* C2: an enabled append entry of the GPO at index j never contributes to
\* the merged value of its pair when a GPO at an index i < j holds an
\* override entry for that pair.
C2_OverrideEndsChain ==
    pc = "merged" =>
        \A p \in Pairs : \A i, j \in 1..Len(pols) :
            (/\ i < j
             /\ \E o \in Range(GPOEntries(pols[i], p)) : o.Strategy # StrategyAppend)
            => \A e \in Range(GPOEntries(pols[j], p)) :
                   IsEnabledAppend(e) => ~Contributes(e, rules, p)

(***************************************************************************)
(* C3.                                                                     *)
(***************************************************************************)
\* The entries of the pair p that are not skipped, closest first.
Contributors(p) == SelectSeq(PairEntries(pols, p), LAMBDA e : ~IsSkipped(e))

\* C3: when the closest contributor of a pair is an override entry, the
\* output holds an entry for the pair and it is that entry, unchanged.
C3_OverrideKept ==
    pc = "merged" =>
        \A p \in Pairs :
            (Contributors(p) # <<>> /\ Contributors(p)[1].Strategy # StrategyAppend)
            => (HasMerged(rules, p) /\ Merged(rules, p) = Contributors(p)[1])

(***************************************************************************)
(* C4.                                                                     *)
(***************************************************************************)
\* C4: every entry list of the output is in strictly ascending key order
\* and holds exactly the keys some entry that is not skipped exists for.
C4_SortedExactKeys ==
    pc = "merged" =>
        \A t \in DOMAIN rules :
            /\ \A i, j \in DOMAIN rules[t] :
                   i < j => StrLess(rules[t][i].Key, rules[t][j].Key)
            /\ {rules[t][i].Key : i \in DOMAIN rules[t]}
                   = {k \in MergeKeys : Contributors(<<t, k>>) # <<>>}

(***************************************************************************)
(* C5.                                                                     *)
(***************************************************************************)
\* C5: the output is the output of the input without its disabled append
\* entries (and every type has the same entry list when the types left
\* without entries are taken out of the input as well); no output entry is
\* a disabled append entry, and no disabled append entry is a segment of
\* the merged value of its pair.
C5_DisabledAppendIgnored ==
    pc = "merged" =>
        /\ rules = GetUniqueRules(StripDisabled(pols), ords)
        /\ \A t \in MergeTypes :
               RulesOf(GetUniqueRules(StripDisabledTypes(pols),
                                      StripOrders(pols, ords)), t)
                   = RulesOf(rules, t)
        /\ \A t \in DOMAIN rules : \A i \in DOMAIN rules[t] : ~IsSkipped(rules[t][i])
        /\ \A p \in Pairs : \A e \in Range(PairEntries(pols, p)) :
               IsSkipped(e) => ~Contributes(e, rules, p)

\* A pair has been merged from an enabled append entry, a disabled append
\* entry of a farther GPO and an enabled append entry of a still farther one.
C5_Witness ==
    /\ pc = "merged"
    /\ \E p \in Pairs :
          /\ Len(PairEntries(pols, p)) = 3
          /\ IsEnabledAppend(PairEntries(pols, p)[1])
          /\ IsSkipped(PairEntries(pols, p)[2])
          /\ IsEnabledAppend(PairEntries(pols, p)[3])
          /\ HasMerged(rules, p)
          /\ Len(SplitLines(Merged(rules, p).Value)) = 2

(***************************************************************************)
(* C6.                                                                     *)
(***************************************************************************)
\* C6: whether the output holds an entry for a pair, and the value of that
\* entry, are the same when the entries of any other pair are taken out of
\* the input (the Rules maps being iterated in the same order).
C6_PairScoped ==
    pc = "merged" =>
        \A p1, p2 \in Pairs :
            p1 # p2 =>
                LET other == GetUniqueRules(WithoutPair(pols, p1), ords) IN
                /\ HasMerged(other, p2) = HasMerged(rules, p2)
                /\ HasMerged(rules, p2) =>
                       Merged(other, p2).Value = Merged(rules, p2).Value

(***************************************************************************)
(* C7.                                                                     *)
(***************************************************************************)
\* C7: a merged entry whose value was joined from several enabled append
\* entries carries the metadata of the closest of them.
C7_ClosestMeta ==
    pc = "merged" =>
        \A p \in Pairs :
            (/\ HasMerged(rules, p)
             /\ Merged(rules, p).Strategy = StrategyAppend
             /\ Len(SplitLines(Merged(rules, p).Value)) >= 2)
            => Merged(rules, p).Meta =
                   SelectSeq(PairEntries(pols, p), IsEnabledAppend)[1].Meta

\* A pair has been merged from the enabled append entries of three GPOs.
C7_Witness ==
    /\ pc = "merged"
    /\ \E p \in Pairs :
          /\ Len(PairEntries(pols, p)) = 3
          /\ OnlyEnabledAppends(p)
          /\ HasMerged(rules, p)
          /\ Len(SplitLines(Merged(rules, p).Value)) = 3
          /\ Merged(rules, p).Meta = <<49>>

(***************************************************************************)
(* Manager.ApplyPolicies, lines 237-266, with the tasks of its errgroup,   *)
(* getSubcriptionState (lines 331-364), filterRules (lines 367-372) and    *)
(* Policies.Save (lines 156-168).                                          *)
(***************************************************************************)
\* The Policy Sets ApplyPolicies is called with: no GPO; one GPO per rule
\* type; two GPOs whose privilege entries are merged.
ApplyPolicySets ==
    {<<>>,
     <<[Rules |-> (Dconf :> <<EntryAt(1, <<107>>, StrategyOverride, FALSE)>>)],
       [Rules |-> (Privilege :> <<EntryAt(2, <<107>>, StrategyOverride, FALSE)>>)],
       [Rules |-> (Gdm :> <<EntryAt(3, <<107>>, StrategyOverride, FALSE)>>)]>>,
     <<[Rules |-> (Privilege :> <<EntryAt(1, <<107>>, StrategyAppend, FALSE)>>)],
       [Rules |-> (Privilege :> <<EntryAt(2, <<107>>, StrategyAppend, FALSE)>>
                   @@ Dconf :> <<EntryAt(2, <<108>>, StrategyAppend, TRUE)>>)]>>}

\* What GetProperty (line 348) answers: an error, a value that is no
\* string, or a string.
DbusReplies ==
    {[err |-> TRUE, isString |-> FALSE, value |-> ""],
     [err |-> FALSE, isString |-> FALSE, value |-> ""],
     [err |-> FALSE, isString |-> TRUE, value |-> "enabled"],
     [err |-> FALSE, isString |-> TRUE, value |-> "disabled"],
     [err |-> FALSE, isString |-> TRUE, value |-> ""]}

\* A mutant of SubscriptionState: every string enables.
SubscriptionStateAnyString(reply) == ~reply.err /\ reply.isString

\* Lines 348-363: what getSubcriptionState makes of the reply.
SubscriptionState(reply) ==
    IF reply.err THEN FALSE
    ELSE IF ~reply.isString THEN FALSE
    ELSE IF reply.value # "enabled" THEN FALSE
    ELSE TRUE

\* A mutant of FilterRules: the privilege rules are left in place.
FilterRulesNothing(rs) == rs

\* filterRules, line 370: rules["privilege"] = nil.
FilterRules(rs) == MapSet(rs, Privilege, <<>>)

\* A mutant of AfterWait: the error of g.Wait() is dropped.
AfterWaitIgnoringError(err, computer) == IF computer THEN "gdm" ELSE "save"

\* Lines 253-257: where ApplyPolicies goes once g.Wait() has returned err.
AfterWait(err, computer) ==
    IF err # "none" THEN "returned"
    ELSE IF computer THEN "gdm" ELSE "save"

\* Lines 237-244: ApplyPolicies is called, merges the rules and starts the
\* dconf task.
Call ==
    /\ pc \in {"idle", "returned"}
    /\ calls < MaxCalls
    /\ \E name \in Targets, computer \in BOOLEAN, p \in ApplyPolicySets :
          \E o \in Orders(p) :
             /\ objectName' = name
             /\ isComputer' = computer
             /\ pols' = p
             /\ ords' = o
             /\ rules' = GetUniqueRules(p, o)
    /\ dconf' = "spawned"
    /\ privilege' = "none"
    /\ gdm' = "none"
    /\ dconfArgs' = <<>>
    /\ privilegeArgs' = <<>>
    /\ gdmArgs' = <<>>
    /\ writing' = FALSE
    /\ raced' = FALSE
    /\ groupErr' = "none"
    /\ checked' = "none"
    /\ cacheBefore' = cache
    /\ ret' = "none"
    /\ calls' = calls + 1
    /\ prev' = IF calls = 0 THEN NoCall
               ELSE [called |-> TRUE, pols |-> pols, checked |-> checked,
                     privilegeArgs |-> privilegeArgs]
    /\ dbusReply' = NoReply
    /\ retErr' = "none"
    /\ handed' = {}
    /\ status' = "none"
    /\ query' = NoQuery
    /\ pc' = "check"
    /\ UNCHANGED <<subscriptionEnabled, cache, mtime>>

\* Line 246, lines 331-364: the subscription state is queried and stored.
CheckSubscription ==
    /\ pc = "check"
    /\ \E r \in DbusReplies :
          /\ dbusReply' = r
          /\ subscriptionEnabled' = SubscriptionState(r)
          /\ checked' = IF SubscriptionState(r) THEN "enabled" ELSE "notenabled"
          /\ pc' = IF SubscriptionState(r) THEN "gopriv" ELSE "filter"
    /\ status' = "none"
    /\ UNCHANGED <<pols, ords, rules, objectName, isComputer, dconf, privilege, gdm,
                   dconfArgs, privilegeArgs, gdmArgs, writing, raced, groupErr,
                   cache, cacheBefore, ret, calls, prev, retErr, handed,
                   mtime, query>>

\* Line 247, line 370: filterRules starts to write the rules map.
FilterBegin ==
    /\ pc = "filter"
    /\ writing' = TRUE
    /\ raced' = (raced \/ dconf = "reading")
    /\ pc' = "filtering"
    /\ dbusReply' = NoReply
    /\ status' = "none"
    /\ UNCHANGED <<pols, ords, rules, objectName, isComputer, dconf, privilege, gdm,
                   dconfArgs, privilegeArgs, gdmArgs, groupErr, subscriptionEnabled,
                   checked, cache, cacheBefore, ret, calls, prev, retErr, handed,
                   mtime, query>>

\* Line 370: the write of the rules map is done.
FilterEnd ==
    /\ pc = "filtering"
    /\ rules' = FilterRules(rules)
    /\ writing' = FALSE
    /\ pc' = "gopriv"
    /\ UNCHANGED <<pols, ords, objectName, isComputer, dconf, privilege, gdm,
                   dconfArgs, privilegeArgs, gdmArgs, raced, groupErr,
                   subscriptionEnabled, checked, cache, cacheBefore, ret, calls, prev,
                   dbusReply, status, retErr, handed,
                   mtime, query>>

\* Line 250: the privilege task is started.
GoPrivilege ==
    /\ pc = "gopriv"
    /\ privilege' = "spawned"
    /\ pc' = "wait"
    /\ dbusReply' = NoReply
    /\ status' = "none"
    /\ UNCHANGED <<pols, ords, rules, objectName, isComputer, dconf, gdm,
                   dconfArgs, privilegeArgs, gdmArgs, writing, raced, groupErr,
                   subscriptionEnabled, checked, cache, cacheBefore, ret, calls, prev,
                   retErr, handed,
                   mtime, query>>

\* What the task of line 244 can read as rules["dconf"].  The read is not
\* ordered with the write of line 370: when the two overlap, the Go runtime
\* may give the element, or miss it.
DconfReads ==
    IF raced THEN {RulesOf(rules, Dconf), <<>>} ELSE {RulesOf(rules, Dconf)}

\* Line 244: the dconf task starts to read rules["dconf"].
DconfReadBegin ==
    /\ pc \notin {"idle", "crashed"}
    /\ dconf = "spawned"
    /\ dconf' = "reading"
    /\ raced' = writing
    /\ UNCHANGED <<pols, ords, rules, pc, objectName, isComputer, privilege, gdm,
                   dconfArgs, privilegeArgs, gdmArgs, writing, groupErr,
                   subscriptionEnabled, checked, cache, cacheBefore, ret, calls, prev,
                   dbusReply, status, retErr, handed,
                   mtime, query>>

\* Line 244: the read is done and m.dconf.ApplyPolicy is invoked.
DconfInvoke ==
    /\ pc \notin {"idle", "crashed"}
    /\ dconf = "reading"
    /\ \E read \in DconfReads : dconfArgs' = read
    /\ dconf' = "running"
    /\ handed' = handed \cup {"dconf"}
    /\ UNCHANGED <<pols, ords, rules, pc, objectName, isComputer, privilege, gdm,
                   privilegeArgs, gdmArgs, writing, raced, groupErr,
                   subscriptionEnabled, checked, cache, cacheBefore, ret, calls, prev,
                   dbusReply, status, retErr,
                   mtime, query>>

\* Line 244 against line 370: the runtime detects the concurrent map read
\* and map write and ends the process.
MapRaceFatal ==
    /\ pc \notin {"idle", "crashed"}
    /\ dconf = "reading"
    /\ raced
    /\ pc' = "crashed"
    /\ UNCHANGED <<pols, ords, rules, objectName, isComputer, dconf, privilege, gdm,
                   dconfArgs, privilegeArgs, gdmArgs, writing, raced, groupErr,
                   subscriptionEnabled, checked, cache, cacheBefore, ret, calls, prev,
                   dbusReply, status, retErr, handed,
                   mtime, query>>

\* Line 244: m.dconf.ApplyPolicy returns, with an error or without.
DconfReturn ==
    /\ pc \notin {"idle", "crashed"}
    /\ dconf = "running"
    /\ \E ok \in BOOLEAN :
          /\ dconf' = IF ok THEN "ok" ELSE "err"
          /\ groupErr' = IF ~ok /\ groupErr = "none" THEN "dconf" ELSE groupErr
    /\ UNCHANGED <<pols, ords, rules, pc, objectName, isComputer, privilege, gdm,
                   dconfArgs, privilegeArgs, gdmArgs, writing, raced,
                   subscriptionEnabled, checked, cache, cacheBefore, ret, calls, prev,
                   dbusReply, status, retErr, handed,
                   mtime, query>>

\* Line 250: the privilege task reads rules["privilege"] and invokes
\* m.privilege.ApplyPolicy.
PrivilegeInvoke ==
    /\ pc \notin {"idle", "crashed"}
    /\ privilege = "spawned"
    /\ privilegeArgs' = RulesOf(rules, Privilege)
    /\ privilege' = "running"
    /\ handed' = handed \cup {"privilege"}
    /\ UNCHANGED <<pols, ords, rules, pc, objectName, isComputer, dconf, gdm,
                   dconfArgs, gdmArgs, writing, raced, groupErr,
                   subscriptionEnabled, checked, cache, cacheBefore, ret, calls, prev,
                   dbusReply, status, retErr,
                   mtime, query>>

\* Line 250: m.privilege.ApplyPolicy returns, with an error or without.
PrivilegeReturn ==
    /\ pc \notin {"idle", "crashed"}
    /\ privilege = "running"
    /\ \E ok \in BOOLEAN :
          /\ privilege' = IF ok THEN "ok" ELSE "err"
          /\ groupErr' = IF ~ok /\ groupErr = "none" THEN "privilege" ELSE groupErr
    /\ UNCHANGED <<pols, ords, rules, pc, objectName, isComputer, dconf, gdm,
                   dconfArgs, privilegeArgs, gdmArgs, writing, raced,
                   subscriptionEnabled, checked, cache, cacheBefore, ret, calls, prev,
                   dbusReply, status, retErr, handed,
                   mtime, query>>

\* A mutant of Wait: g.Wait() returns as soon as a task has returned an
\* error, without waiting for the other task.
WaitFirstError ==
    /\ pc = "wait"
    /\ groupErr # "none" \/ (dconf \in {"ok", "err"} /\ privilege \in {"ok", "err"})
    /\ pc' = AfterWait(groupErr, isComputer)
    /\ ret' = IF AfterWait(groupErr, isComputer) = "returned" THEN "err" ELSE ret
    /\ retErr' = IF AfterWait(groupErr, isComputer) = "returned" THEN groupErr ELSE retErr
    /\ UNCHANGED <<pols, ords, rules, objectName, isComputer, dconf, privilege, gdm,
                   dconfArgs, privilegeArgs, gdmArgs, writing, raced, groupErr,
                   subscriptionEnabled, checked, cache, cacheBefore, calls, prev,
                   dbusReply, status, handed,
                   mtime, query>>

\* Lines 253-257: g.Wait() returns once both tasks have returned; its error
\* is returned.
Wait ==
    /\ pc = "wait"
    /\ dconf \in {"ok", "err"}
    /\ privilege \in {"ok", "err"}
    /\ pc' = AfterWait(groupErr, isComputer)
    /\ ret' = IF AfterWait(groupErr, isComputer) = "returned" THEN "err" ELSE ret
    /\ retErr' = IF AfterWait(groupErr, isComputer) = "returned" THEN groupErr ELSE retErr
    /\ UNCHANGED <<pols, ords, rules, objectName, isComputer, dconf, privilege, gdm,
                   dconfArgs, privilegeArgs, gdmArgs, writing, raced, groupErr,
                   subscriptionEnabled, checked, cache, cacheBefore, calls, prev,
                   dbusReply, status, handed,
                   mtime, query>>

\* Line 259: m.gdm.ApplyPolicy is invoked with rules["gdm"].
GdmInvoke ==
    /\ pc = "gdm"
    /\ gdm' = "running"
    /\ gdmArgs' = RulesOf(rules, Gdm)
    /\ pc' = "gdmwait"
    /\ handed' = handed \cup {"gdm"}
    /\ UNCHANGED <<pols, ords, rules, objectName, isComputer, dconf, privilege,
                   dconfArgs, privilegeArgs, writing, raced, groupErr,
                   subscriptionEnabled, checked, cache, cacheBefore, ret, calls, prev,
                   dbusReply, status, retErr,
                   mtime, query>>

\* Lines 259-261: m.gdm.ApplyPolicy returns; its error is returned.
GdmReturn ==
    /\ pc = "gdmwait"
    /\ \E ok \in BOOLEAN :
          /\ gdm' = IF ok THEN "ok" ELSE "err"
          /\ pc' = IF ok THEN "save" ELSE "returned"
          /\ ret' = IF ok THEN ret ELSE "err"
          /\ retErr' = IF ok THEN retErr ELSE "gdm"
    /\ UNCHANGED <<pols, ords, rules, objectName, isComputer, dconf, privilege,
                   dconfArgs, privilegeArgs, gdmArgs, writing, raced, groupErr,
                   subscriptionEnabled, checked, cache, cacheBefore, calls, prev,
                   dbusReply, status, handed,
                   mtime, query>>

\* Policies.Save, lines 156-168: what the file p is after the call, by the
\* way the call ends.  "marshal": yaml.Marshal fails (line 160).  "open":
\* os.WriteFile fails before it has opened the file.  "write": os.WriteFile
\* fails after it has created or truncated the file.
SaveOutcomes == {"ok", "marshal", "open", "write"}

\* A mutant of SavedFile: the file is left as it was.
SavedFileKept(file, p, outcome) == file

SavedFile(file, p, outcome) ==
    IF outcome = "ok" THEN Marshal(p)
    ELSE IF outcome = "write" THEN BrokenFile
    ELSE file

\* The modification time of the file after the call of Save made at the
\* time now: os.WriteFile (line 163) sets it when it creates, truncates or
\* writes the file.
SavedTime(t, now, outcome) == IF outcome \in {"ok", "write"} THEN now ELSE t

\* Line 265: pols.Save(policiesCacheDir/objectName) and the return of its error.
Save ==
    /\ pc = "save"
    /\ \E outcome \in SaveOutcomes :
          /\ cache' = [cache EXCEPT ![objectName] = SavedFile(@, PoliciesOf(pols), outcome)]
          /\ ret' = IF outcome = "ok" THEN "ok" ELSE "err"
          /\ mtime' = [mtime EXCEPT ![objectName] = SavedTime(@, calls, outcome)]
          /\ retErr' = IF outcome = "ok" THEN "none" ELSE "save"
    /\ pc' = "returned"
    /\ UNCHANGED <<pols, ords, rules, objectName, isComputer, dconf, privilege, gdm,
                   dconfArgs, privilegeArgs, gdmArgs, writing, raced, groupErr,
                   subscriptionEnabled, checked, cacheBefore, calls, prev,
                   dbusReply, status, handed, query>>

\* Manager.GetStatus, lines 375-379: another goroutine reads the stored
\* subscription state, under the read lock: before a call, before and
\* after the check of a call, after a call.
GetStatus ==
    /\ pc \in {"idle", "check", "filter", "gopriv", "returned"}
    /\ status' = IF subscriptionEnabled THEN "enabled" ELSE "notenabled"
    /\ UNCHANGED <<pols, ords, rules, pc, objectName, isComputer, dconf, privilege,
                   gdm, dconfArgs, privilegeArgs, gdmArgs, writing, raced, groupErr,
                   subscriptionEnabled, checked, cache, cacheBefore, ret, calls, prev,
                   dbusReply, retErr, handed,
                   mtime, query>>

\* A mutant of LastUpdateOf: the object is the one named, of machine scope
\* or not.
LastUpdateOfNamed(name, isMachine) ==
    IF ~cache[name].present
    THEN [op |-> "LastUpdateFor", objectName |-> name, isMachine |-> isMachine,
          err |-> TRUE, named |-> name, time |-> 0, msg |-> <<>>]
    ELSE [op |-> "LastUpdateFor", objectName |-> name, isMachine |-> isMachine,
          err |-> FALSE, named |-> "", time |-> mtime[name], msg |-> <<>>]

\* Manager.LastUpdateFor, lines 310-328: what the call returns.  With
\* isMachine the object is the host (lines 315-321); os.Stat fails on a file
\* that is not there (lines 323-326); else the modification time (line 327).
LastUpdateOf(name, isMachine) ==
    LET object == IF isMachine THEN Hostname ELSE name
    IN  IF ~cache[object].present
        THEN [op |-> "LastUpdateFor", objectName |-> name, isMachine |-> isMachine,
              err |-> TRUE, named |-> object, time |-> 0, msg |-> <<>>]
        ELSE [op |-> "LastUpdateFor", objectName |-> name, isMachine |-> isMachine,
              err |-> FALSE, named |-> "", time |-> mtime[object], msg |-> <<>>]

\* LastUpdateFor is called and returns: the one call observed between two
\* ApplyPolicies calls.
LastUpdateFor ==
    /\ pc \in {"idle", "returned"}
    /\ query = NoQuery
    /\ \E name \in Targets, isMachine \in BOOLEAN :
          query' = LastUpdateOf(name, isMachine)
    /\ UNCHANGED <<pols, ords, rules, pc, objectName, isComputer, dconf, privilege,
                   gdm, dconfArgs, privilegeArgs, gdmArgs, writing, raced, groupErr,
                   subscriptionEnabled, checked, cache, cacheBefore, ret, calls, prev,
                   dbusReply, status, retErr, handed, mtime>>

\* What DumpPolicies returns on an error: no report, and the error of line
\* 289 or 300, which names the object whose file could not be loaded.
DumpError(name, object) ==
    [op |-> "DumpPolicies", objectName |-> name, isMachine |-> FALSE,
     err |-> TRUE, named |-> object, time |-> 0, msg |-> <<>>]

\* What DumpPolicies returns without error: the report, section after
\* section.  Each GPO stands for what g.Format writes of it.
DumpReport(name, sections) ==
    [op |-> "DumpPolicies", objectName |-> name, isMachine |-> FALSE,
     err |-> FALSE, named |-> "", time |-> 0, msg |-> sections]

\* Lines 286 and 294: the sections that start with the header of the
\* machine and with the header of the user; lines 302-304: the section of
\* the object, which follows the header of the user if there is one.
MachineSection(gpos) == [header |-> "machine", GPOs |-> gpos]
UserSection(gpos) == [header |-> "user", GPOs |-> gpos]
PlainSection(gpos) == [header |-> "", GPOs |-> gpos]

\* A mutant of DumpsOf: the error names the object of the call, whichever
\* file could not be loaded.
DumpsOfNamed(name) ==
    IF name # Hostname
    THEN {IF h.err \/ t.err THEN DumpError(name, name)
          ELSE DumpReport(name, <<MachineSection(h.pols.GPOs), UserSection(t.pols.GPOs)>>) :
             h \in NewFromCache(cache[Hostname]), t \in NewFromCache(cache[name])}
    ELSE {IF t.err THEN DumpError(name, name)
          ELSE DumpReport(name, <<PlainSection(t.pols.GPOs)>>) :
             t \in NewFromCache(cache[name])}

\* Manager.DumpPolicies, lines 270-307: what the call can return.  For an
\* object that is not the host the file of the host is loaded first (lines
\* 285-295), then the file of the object (lines 298-304).
DumpsOf(name) ==
    IF name # Hostname
    THEN {IF h.err THEN DumpError(name, Hostname)
          ELSE IF t.err THEN DumpError(name, name)
          ELSE DumpReport(name, <<MachineSection(h.pols.GPOs), UserSection(t.pols.GPOs)>>) :
             h \in NewFromCache(cache[Hostname]), t \in NewFromCache(cache[name])}
    ELSE {IF t.err THEN DumpError(name, name)
          ELSE DumpReport(name, <<PlainSection(t.pols.GPOs)>>) :
             t \in NewFromCache(cache[name])}

\* DumpPolicies is called and returns: the one call observed between two
\* ApplyPolicies calls.
DumpPolicies ==
    /\ pc \in {"idle", "returned"}
    /\ query = NoQuery
    /\ \E name \in Targets : \E d \in DumpsOf(name) : query' = d
    /\ UNCHANGED <<pols, ords, rules, pc, objectName, isComputer, dconf, privilege,
                   gdm, dconfArgs, privilegeArgs, gdmArgs, writing, raced, groupErr,
                   subscriptionEnabled, checked, cache, cacheBefore, ret, calls, prev,
                   dbusReply, status, retErr, handed, mtime>>

InitApply ==
    /\ pols = <<>>
    /\ ords = <<>>
    /\ rules = NoRules
    /\ pc = "idle"
    /\ InitManager

\* The steps of ApplyPolicies and of its tasks.
NextApplyPolicies ==
    \/ Call
    \/ CheckSubscription
    \/ FilterBegin
    \/ FilterEnd
    \/ GoPrivilege
    \/ DconfReadBegin
    \/ DconfInvoke
    \/ MapRaceFatal
    \/ DconfReturn
    \/ PrivilegeInvoke
    \/ PrivilegeReturn
    \/ Wait
    \/ GdmInvoke
    \/ GdmReturn
    \/ Save

\* ApplyPolicies calls, with GetStatus calls of other goroutines.
NextApply == NextApplyPolicies \/ GetStatus

SpecApply == InitApply /\ [][NextApply]_vars

\* The steps of the goroutine that called ApplyPolicies, once it is called;
\* the steps of the dconf task; the steps of the privilege task.  The end
\* of the process by the runtime is a step of none of them.
CallerSteps ==
    \/ CheckSubscription
    \/ FilterBegin
    \/ FilterEnd
    \/ GoPrivilege
    \/ Wait
    \/ GdmInvoke
    \/ GdmReturn
    \/ Save
DconfTaskSteps == DconfReadBegin \/ DconfInvoke \/ DconfReturn
PrivilegeTaskSteps == PrivilegeInvoke \/ PrivilegeReturn

\* SpecApply with the Go scheduler running every goroutine that can run,
\* and with every backend call, the status query and the cache write
\* returning.
FairApply ==
    /\ SpecApply
    /\ WF_vars(CallerSteps)
    /\ WF_vars(DconfTaskSteps)
    /\ WF_vars(PrivilegeTaskSteps)

\* ApplyPolicies calls, with DumpPolicies and LastUpdateFor calls between them.
NextInspect == NextApplyPolicies \/ DumpPolicies \/ LastUpdateFor

SpecInspect == InitApply /\ [][NextInspect]_vars

(***************************************************************************)
(* C8.                                                                     *)
(***************************************************************************)
\* m.privilege.ApplyPolicy has been invoked in this call.
PrivilegeInvoked == privilege \in {"running", "ok", "err"}

\* C8: the privilege backend is invoked with no rule when the entitlement
\* check of the call yielded not-enabled, and with the merged privilege
\* rules of the Policy Set when it yielded enabled, in every call.
C8_PrivilegeGated ==
    PrivilegeInvoked =>
        /\ checked = "notenabled" => privilegeArgs = <<>>
        /\ checked = "enabled" =>
               privilegeArgs = RulesOf(GetUniqueRules(pols, ords), Privilege)
        /\ checked \in {"enabled", "notenabled"}

\* A call whose check yielded not-enabled invoked the privilege backend
\* with no rule, and the next call, of the same Policy Set, whose check
\* yields enabled has invoked it with the merged privilege rules.
C8_Witness ==
    /\ PrivilegeInvoked
    /\ checked = "enabled"
    /\ privilegeArgs # <<>>
    /\ privilegeArgs = RulesOf(GetUniqueRules(pols, ords), Privilege)
    /\ prev.called
    /\ prev.pols = pols
    /\ prev.checked = "notenabled"
    /\ prev.privilegeArgs = <<>>

(***************************************************************************)
(* C9.                                                                     *)
(***************************************************************************)
\* C9: the gdm backend is invoked in a call only if the call is of machine
\* scope and its dconf backend call has returned without error.
C9_GdmAfterDconf == gdm # "none" => (isComputer /\ dconf = "ok")

\* The gdm backend has been invoked, in a call of machine scope whose dconf
\* and privilege backend calls returned without error.
C9_Witness ==
    /\ gdm = "running"
    /\ isComputer
    /\ dconf = "ok"
    /\ privilege = "ok"
    /\ gdmArgs # <<>>

(***************************************************************************)
(* C10.                                                                    *)
(***************************************************************************)
\* C10: when ApplyPolicies has returned an error, the cache file of the
\* target is what it was when the call started.
C10_ErrorKeepsCache ==
    (pc = "returned" /\ ret = "err") => cache[objectName] = cacheBefore[objectName]

(***************************************************************************)
(* C11.                                                                    *)
(***************************************************************************)
\* C11: when ApplyPolicies has returned without error, NewFromCache of the
\* cache file of the target returns, without error, the GPO list the call
\* was given, in its order and with its entries, and no Data.
C11_CacheRoundTrip ==
    (pc = "returned" /\ ret = "ok") =>
        NewFromCache(cache[objectName]) = {Loaded(pols)}

\* A call whose check yielded not-enabled, of a Policy Set with privilege
\* rules that were kept from the privilege backend, has returned without
\* error over an older cache file of another Policy Set.
C11_Witness ==
    /\ pc = "returned"
    /\ ret = "ok"
    /\ checked = "notenabled"
    /\ RulesOf(GetUniqueRules(pols, ords), Privilege) # <<>>
    /\ privilegeArgs = <<>>
    /\ Len(pols) = 2
    /\ cacheBefore[objectName].present
    /\ cacheBefore[objectName] # cache[objectName]
    /\ NewFromCache(cache[objectName]) = {Loaded(pols)}

(***************************************************************************)
(* C12.                                                                    *)
(***************************************************************************)
\* The task has returned from its backend call.
Done(task) == task \in {"ok", "err"}

\* C12: ApplyPolicies goes past g.Wait(), and returns, only when both the
\* dconf and the privilege backend calls have returned; when one of them
\* has returned an error, the gdm backend is not invoked, the cache is not
\* written, and what ApplyPolicies returns is an error.
C12_WaitsForBoth ==
    /\ pc \in {"gdm", "gdmwait", "save", "returned"} => (Done(dconf) /\ Done(privilege))
    /\ (dconf = "err" \/ privilege = "err") =>
           /\ gdm = "none"
           /\ cache = cacheBefore
           /\ pc \notin {"gdm", "gdmwait", "save"}
           /\ pc = "returned" => ret = "err"

\* A call of machine scope has returned an error after both tasks have
\* returned, the privilege backend with an error and the dconf backend
\* without, over a cache file of an earlier call.
C12_Witness ==
    /\ pc = "returned"
    /\ ret = "err"
    /\ isComputer
    /\ dconf = "ok"
    /\ privilege = "err"
    /\ gdm = "none"
    /\ cache[objectName].present
    /\ cache = cacheBefore

(***************************************************************************)
(* C13.                                                                    *)
(***************************************************************************)
\* C13: filterRules does not write the rules map while the dconf task,
\* which has been started, has yet to read the map or is reading it.
C13_NoWriteWhileRead == writing => dconf \notin {"spawned", "reading"}

(***************************************************************************)
(* C14.                                                                    *)
(***************************************************************************)
\* What the last getSubcriptionState call that returned has returned:
\* "none" when there was none.
LastCheck == IF checked # "none" THEN checked ELSE prev.checked

\* C14: getSubcriptionState returns true exactly when GetProperty answered
\* without error the string "enabled"; the error ApplyPolicies returns is
\* one of a backend or of Save, and the call goes on after the check
\* whatever GetProperty answered; GetStatus returns what the last check
\* that returned has returned, and false when there was none.
C14_EntitlementGate ==
    /\ dbusReply # NoReply =>
           (checked = "enabled") =
              (~dbusReply.err /\ dbusReply.isString /\ dbusReply.value = "enabled")
    /\ checked # "none" => subscriptionEnabled = (checked = "enabled")
    /\ pc \in {"filter", "gopriv"} => ret = "none"
    /\ ret = "err" => retErr \in {"dconf", "privilege", "gdm", "save"}
    /\ subscriptionEnabled = (LastCheck = "enabled")
    /\ status # "none" => (status = "enabled") = (LastCheck = "enabled")

\* GetProperty has failed in a call that goes on, GetStatus has returned
\* false after it, and the check of the call before it had yielded enabled.
C14_Witness ==
    /\ pc = "filter"
    /\ ret = "none"
    /\ dbusReply.err
    /\ checked = "notenabled"
    /\ status = "notenabled"
    /\ prev.checked = "enabled"

(***************************************************************************)
(* C15.                                                                    *)
(***************************************************************************)
\* The external calls made so far in this call: the backend calls and the
\* status query, GetProperty.
ExternalCalls ==
    {c \in {"dconf"} : dconf \in {"running", "ok", "err"}}
    \cup {c \in {"privilege"} : privilege \in {"running", "ok", "err"}}
    \cup {c \in {"gdm"} : gdm \in {"running", "ok", "err"}}
    \cup {c \in {"status"} : checked # "none"}

\* C15: every external call made in an ApplyPolicies call, the status query
\* among them, was given the ctx of the caller.
C15_CtxHanded == ExternalCalls \subseteq handed

(***************************************************************************)
(* C16.                                                                    *)
(***************************************************************************)
\* The modification time of the cache file of the object, or the error
\* that names the object when the file is not there.
TimeOrError(r, object) ==
    IF cache[object].present
    THEN ~r.err /\ r.time = mtime[object]
    ELSE r.err /\ r.named = object /\ r.time = 0

\* The step is a LastUpdateFor call.
IsLastUpdateFor == query = NoQuery /\ query'.op = "LastUpdateFor"

\* C16: a LastUpdateFor call of machine scope returns, for every object
\* name, the modification time of the cache file of the host, or an error
\* naming the host when the file is not there; a call of user scope
\* returns the modification time of the cache file of the object named,
\* or an error naming it; the call leaves the cache as it is.
C16_LastUpdateFor ==
    [][IsLastUpdateFor =>
          /\ query'.isMachine => TimeOrError(query', Hostname)
          /\ ~query'.isMachine => TimeOrError(query', query'.objectName)
          /\ cache' = cache
          /\ mtime' = mtime]_vars

\* LastUpdateFor, called of machine scope for the user while the host has
\* a cache file and the user has a newer one, has returned the time of the
\* file of the host.
C16_Witness ==
    /\ query.op = "LastUpdateFor"
    /\ query.isMachine
    /\ query.objectName = "user"
    /\ cache[Hostname].present
    /\ cache["user"].present
    /\ mtime["user"] > mtime[Hostname]
    /\ ~query.err
    /\ query.time = mtime[Hostname]

(***************************************************************************)
(* C17.                                                                    *)
(***************************************************************************)
\* The cache file of the object is missing; it is there and holds the
\* document of a GPO list.
Missing(object) == ~cache[object].present
Exists(object) == cache[object].present /\ cache[object].valid

\* The GPO list the cache file of the object holds.
Entry(object) == DecodeGPOs(cache[object].GPOs)

\* C17: DumpPolicies of an object that is not the host returns no report
\* and an error naming the host when the cache file of the host is
\* missing, whether the file of the object exists or not, and no report
\* and an error naming the object when the file of the host exists and
\* that of the object is missing; DumpPolicies of the host loads and
\* renders the file of the host only.
C17_DumpPolicies ==
    query.op = "DumpPolicies" =>
        /\ query.err => query.msg = <<>>
        /\ (query.objectName # Hostname /\ Missing(Hostname)) =>
               (query.err /\ query.named = Hostname)
        /\ (query.objectName # Hostname /\ Exists(Hostname)
                /\ Missing(query.objectName)) =>
               (query.err /\ query.named = query.objectName)
        /\ (query.objectName # Hostname /\ Exists(Hostname)
                /\ Exists(query.objectName)) =>
               /\ ~query.err
               /\ query.msg = <<MachineSection(Entry(Hostname)),
                                UserSection(Entry(query.objectName))>>
        /\ query.objectName = Hostname =>
               /\ query.err => query.named = Hostname
               /\ Missing(Hostname) => query.err
               /\ Exists(Hostname) =>
                      (~query.err /\ query.msg = <<PlainSection(Entry(Hostname))>>)

\* DumpPolicies of the user, whose cache file exists while that of the
\* host is missing, has returned no report and an error naming the host.
C17_Witness ==
    /\ query.op = "DumpPolicies"
    /\ query.objectName = "user"
    /\ Missing(Hostname)
    /\ Exists("user")
    /\ Entry("user") # <<>>
    /\ query.err
    /\ query.named = Hostname
    /\ query.msg = <<>>

(***************************************************************************)
(* C18.                                                                    *)
(***************************************************************************)
\* C18: GetUniqueRules returns the same rules whatever the order in which
\* the Rules map of each GPO is iterated.
C18_Deterministic ==
    pc = "merged" => \A o \in Orders(pols) : GetUniqueRules(pols, o) = rules

(***************************************************************************)
(* C19.                                                                    *)
(***************************************************************************)
\* m.dconf.ApplyPolicy has been invoked in this call.
DconfInvoked == dconf \in {"running", "ok", "err"}

\* C19: in every call the dconf backend is invoked with the merged dconf
\* rules of the Policy Set and the gdm backend with its merged gdm rules,
\* whatever the check yielded; when the check yielded enabled the rules map
\* is the merged one and the privilege backend is invoked with the merged
\* privilege rules.
C19_OnlyPrivilegeFiltered ==
    /\ DconfInvoked => dconfArgs = RulesOf(GetUniqueRules(pols, ords), Dconf)
    /\ gdm # "none" => gdmArgs = RulesOf(GetUniqueRules(pols, ords), Gdm)
    /\ checked = "enabled" =>
           /\ rules = GetUniqueRules(pols, ords)
           /\ PrivilegeInvoked =>
                  privilegeArgs = RulesOf(GetUniqueRules(pols, ords), Privilege)

(***************************************************************************)
(* C20.                                                                    *)
(***************************************************************************)
\* C20: with every goroutine that can run being run, and every backend
\* call, the status query and the cache write returning, every
\* ApplyPolicies call that has started returns, with an error or without.
C20_Terminates == (pc = "check") ~> (pc = "returned")

====
